---- MODULE Spec2Model ----
(***************************************************************************)
(* LSP basic JSON structures (experiments/013-ruby-lsp-validation/         *)
(* lsp_models.py): the pydantic v2 models, their construction-time          *)
(* validation, attribute assignment, model_dump + json.dumps, the inverse   *)
(* json.loads + model_validate, and the schema export of the main block.    *)
(***************************************************************************)
EXTENDS Integers, Sequences, FiniteSets, TLC

VARIABLES
    smart,    \* union algorithm of the installed pydantic 2.x: "ltr" (2.0-2.7) or "fields" (2.8+)
    inst,     \* the instance the caller holds (NoInst when there is none)
    kw,       \* keyword arguments of the construction that made inst (or was refused)
    err,      \* errors of the last construction or deserialization (a set; {} when it succeeded)
    out,      \* JSON text last produced by json.dumps(x.model_dump()) or received from the wire
    back,     \* instance last obtained by deserializing out
    call,     \* the last operation: <<name, class>>
    assigned, \* an attribute of inst was assigned since its construction
    pc,       \* position of the __main__ block
    schema,   \* the dict built inside the with block: entries generated so far
    buf,      \* entries written to f and still in its buffer
    file,     \* content of lsp-structures-schema.json
    prev      \* content of the file before the export started

vars == <<smart, inst, kw, err, out, back, call, assigned, pc, schema, buf, file, prev>>

(***************************************************************************)
(* Bounds of the model.                                                    *)
(***************************************************************************)
MaxInt == 5      \* integer inputs range over -2..MaxInt
MaxEdits == 2    \* longest list of entries given to a list field

(***************************************************************************)
(* Python values. Every value is a record tagged by its Python type t,     *)
(* with the payload under a field of its own. A float is kept in tenths    *)
(* (15 is 1.5). A dict and the fields of a model instance are sequences    *)
(* of <<key, value>> in insertion order.                                   *)
(***************************************************************************)
I(n) == [t |-> "int", n |-> n]
S(s) == [t |-> "str", s |-> s]
Bl(b) == [t |-> "bool", b |-> b]
Fl(tenths) == [t |-> "float", f |-> tenths]
None == [t |-> "none"]
L(seq) == [t |-> "list", l |-> seq]
D(pairs) == [t |-> "dict", d |-> pairs]
M(cls, pairs) == [t |-> "model", m |-> <<cls, pairs>>]
NoInst == [t |-> "noinst"]

ClsOf(x) == x.m[1]
FieldsOf(x) == x.m[2]

Has(p, k) == \E i \in 1..Len(p) : p[i][1] = k
Get(p, k) == p[CHOOSE i \in 1..Len(p) : p[i][1] = k][2]
Put(p, k, x) == [i \in 1..Len(p) |-> IF p[i][1] = k THEN <<k, x>> ELSE p[i]]

Digits == <<"0", "1", "2", "3", "4", "5", "6", "7", "8", "9">>
IdxStr(i) == Digits[i]

(***************************************************************************)
(* Field types.                                                            *)
(***************************************************************************)
TInt == [k |-> "int", hasge |-> FALSE, ge |-> 0, hasle |-> FALSE, le |-> 0]
TIntGe(lo) == [k |-> "int", hasge |-> TRUE, ge |-> lo, hasle |-> FALSE, le |-> 0]
TIntGeLe(lo, hi) == [k |-> "int", hasge |-> TRUE, ge |-> lo, hasle |-> TRUE, le |-> hi]
TStr == [k |-> "str"]
TBool == [k |-> "bool"]
TAny == [k |-> "any"]
TLit(s) == [k |-> "literal", lit |-> s]
TOpt(ty) == [k |-> "optional", of |-> ty]
TList(ty) == [k |-> "list", of |-> ty]
TDict(ty) == [k |-> "dict", of |-> ty]
TUnion(tys) == [k |-> "union", of |-> tys]
TModel(c) == [k |-> "model", cls |-> c]

Req(n, ty) == [name |-> n, ty |-> ty, req |-> TRUE, dflt |-> None]
Dflt(n, ty, d) == [name |-> n, ty |-> ty, req |-> FALSE, dflt |-> d]
Opt(n, ty) == Dflt(n, TOpt(ty), None)

(***************************************************************************)
(* The models: each class is its fields in declaration order, inherited    *)
(* fields first.                                                           *)
(***************************************************************************)
Position == <<Req("line", TIntGe(0)), Req("character", TIntGe(0))>>

Range == <<Req("start", TModel("Position")), Req("end", TModel("Position"))>>

Location == <<Req("uri", TStr), Req("range", TModel("Range"))>>

LocationLink ==
    <<Opt("originSelectionRange", TModel("Range")), Req("targetUri", TStr),
      Req("targetRange", TModel("Range")), Req("targetSelectionRange", TModel("Range"))>>

\* Diagnostic with the upper bound of severity off by one
Diagnostic_SeverityLe5 ==
    <<Req("range", TModel("Range")),
      Opt("severity", TIntGeLe(1, 5)),
      Opt("code", TUnion(<<TInt, TStr>>)),
      Opt("codeDescription", TDict(TAny)),
      Opt("source", TStr),
      Req("message", TStr),
      Opt("tags", TList(TInt)),
      Opt("relatedInformation", TList(TModel("DiagnosticRelatedInformation"))),
      Opt("data", TAny)>>

Diagnostic ==
    <<Req("range", TModel("Range")),
      Opt("severity", TIntGeLe(1, 4)),
      Opt("code", TUnion(<<TInt, TStr>>)),
      Opt("codeDescription", TDict(TAny)),
      Opt("source", TStr),
      Req("message", TStr),
      Opt("tags", TList(TInt)),
      Opt("relatedInformation", TList(TModel("DiagnosticRelatedInformation"))),
      Opt("data", TAny)>>

DiagnosticRelatedInformation == <<Req("location", TModel("Location")), Req("message", TStr)>>

Command == <<Req("title", TStr), Req("command", TStr), Opt("arguments", TList(TAny))>>

TextEdit == <<Req("range", TModel("Range")), Req("newText", TStr)>>

TextDocumentEdit ==
    <<Req("textDocument", TModel("OptionalVersionedTextDocumentIdentifier")),
      Req("edits", TList(TUnion(<<TModel("TextEdit"), TModel("AnnotatedTextEdit")>>)))>>

WorkspaceEdit ==
    <<Opt("changes", TDict(TList(TModel("TextEdit")))),
      Opt("documentChanges",
          TList(TUnion(<<TModel("TextDocumentEdit"), TModel("CreateFile"),
                         TModel("RenameFile"), TModel("DeleteFile")>>))),
      Opt("changeAnnotations", TDict(TModel("ChangeAnnotation")))>>

TextDocumentIdentifier == <<Req("uri", TStr)>>

VersionedTextDocumentIdentifier == TextDocumentIdentifier \o <<Req("version", TInt)>>

OptionalVersionedTextDocumentIdentifier == TextDocumentIdentifier \o <<Opt("version", TInt)>>

TextDocumentPositionParams ==
    <<Req("textDocument", TModel("TextDocumentIdentifier")), Req("position", TModel("Position"))>>

DocumentFilter == <<Opt("language", TStr), Opt("scheme", TStr), Opt("pattern", TStr)>>

TextDocumentItem ==
    <<Req("uri", TStr), Req("languageId", TStr), Req("version", TInt), Req("text", TStr)>>

MarkupContent == <<Req("kind", TLit({"plaintext", "markdown"})), Req("value", TStr)>>

WorkDoneProgressParams == <<Opt("workDoneToken", TUnion(<<TInt, TStr>>))>>

PartialResultParams == <<Opt("partialResultToken", TUnion(<<TInt, TStr>>))>>

Message == <<Dflt("jsonrpc", TLit({"2.0"}), S("2.0"))>>

\* RequestMessage declaring its own fields ahead of the inherited jsonrpc
RequestMessage_IdFirst ==
    <<Req("id", TUnion(<<TInt, TStr>>)), Req("method", TStr),
      Opt("params", TUnion(<<TList(TAny), TDict(TAny)>>))>> \o Message

RequestMessage ==
    Message \o <<Req("id", TUnion(<<TInt, TStr>>)), Req("method", TStr),
                 Opt("params", TUnion(<<TList(TAny), TDict(TAny)>>))>>

ResponseMessage ==
    Message \o <<Req("id", TUnion(<<TInt, TStr>>)), Opt("result", TAny),
                 Opt("error", TModel("ResponseError"))>>

NotificationMessage ==
    Message \o <<Req("method", TStr), Opt("params", TUnion(<<TList(TAny), TDict(TAny)>>))>>

ResponseError == <<Req("code", TInt), Req("message", TStr), Opt("data", TAny)>>

ChangeAnnotation ==
    <<Req("label", TStr), Opt("needsConfirmation", TBool), Opt("description", TStr)>>

AnnotatedTextEdit == TextEdit \o <<Req("annotationId", TStr)>>

CreateFile ==
    <<Dflt("kind", TLit({"create"}), S("create")), Req("uri", TStr),
      Opt("options", TDict(TAny)), Opt("annotationId", TStr)>>

RenameFile ==
    <<Dflt("kind", TLit({"rename"}), S("rename")), Req("oldUri", TStr), Req("newUri", TStr),
      Opt("options", TDict(TAny)), Opt("annotationId", TStr)>>

DeleteFile ==
    <<Dflt("kind", TLit({"delete"}), S("delete")), Req("uri", TStr),
      Opt("options", TDict(TAny)), Opt("annotationId", TStr)>>

\* the fields of a class by name: what a forward reference resolves to once
\* every class is declared
Fields(c) ==
    CASE c = "Position" -> Position
      [] c = "Range" -> Range
      [] c = "Location" -> Location
      [] c = "LocationLink" -> LocationLink
      [] c = "Diagnostic" -> Diagnostic
      [] c = "DiagnosticRelatedInformation" -> DiagnosticRelatedInformation
      [] c = "Command" -> Command
      [] c = "TextEdit" -> TextEdit
      [] c = "TextDocumentEdit" -> TextDocumentEdit
      [] c = "WorkspaceEdit" -> WorkspaceEdit
      [] c = "TextDocumentIdentifier" -> TextDocumentIdentifier
      [] c = "VersionedTextDocumentIdentifier" -> VersionedTextDocumentIdentifier
      [] c = "OptionalVersionedTextDocumentIdentifier" -> OptionalVersionedTextDocumentIdentifier
      [] c = "TextDocumentPositionParams" -> TextDocumentPositionParams
      [] c = "DocumentFilter" -> DocumentFilter
      [] c = "TextDocumentItem" -> TextDocumentItem
      [] c = "MarkupContent" -> MarkupContent
      [] c = "WorkDoneProgressParams" -> WorkDoneProgressParams
      [] c = "PartialResultParams" -> PartialResultParams
      [] c = "Message" -> Message
      [] c = "RequestMessage" -> RequestMessage
      [] c = "ResponseMessage" -> ResponseMessage
      [] c = "NotificationMessage" -> NotificationMessage
      [] c = "ResponseError" -> ResponseError
      [] c = "ChangeAnnotation" -> ChangeAnnotation
      [] c = "AnnotatedTextEdit" -> AnnotatedTextEdit
      [] c = "CreateFile" -> CreateFile
      [] c = "RenameFile" -> RenameFile
      [] c = "DeleteFile" -> DeleteFile

\* class c is d or derives from d
IsSub(c, d) ==
    \/ c = d
    \/ c = "AnnotatedTextEdit" /\ d = "TextEdit"
    \/ c \in {"VersionedTextDocumentIdentifier", "OptionalVersionedTextDocumentIdentifier"}
       /\ d = "TextDocumentIdentifier"
    \/ c \in {"RequestMessage", "ResponseMessage", "NotificationMessage"} /\ d = "Message"

FieldNames(c) == {Fields(c)[i].name : i \in 1..Len(Fields(c))}
FieldOf(c, n) == Fields(c)[CHOOSE i \in 1..Len(Fields(c)) : Fields(c)[i].name = n]

(***************************************************************************)
(* Validation (pydantic-core, python input, lax mode by default).          *)
(* A result is [ok, val, errs, ex, n, sok]:                                *)
(*   errs  the line errors, each [loc, ty] (field path and error type);    *)
(*   ex    exactness of the match: 2 exact type, 1 strict, 0 lax;          *)
(*   n     count of fields set by the input, -1 when no model was built;   *)
(*   sok   the same input also validates in strict mode.                   *)
(***************************************************************************)
Err(loc, ty) == [loc |-> loc, ty |-> ty]
Ok(x, ex) == [ok |-> TRUE, val |-> x, errs |-> {}, ex |-> ex, n |-> -1, sok |-> ex >= 1]
Fail(ty) == [ok |-> FALSE, val |-> None, errs |-> {Err(<<>>, ty)}, ex |-> 0, n |-> -1, sok |-> FALSE]
At(k, errs) == {Err(<<k>> \o e.loc, e.ty) : e \in errs}

Min2(a, b) == IF a < b THEN a ELSE b
AddN(a, b) == IF a = -1 THEN b ELSE IF b = -1 THEN a ELSE a + b

RECURSIVE MinEx(_, _)
MinEx(rs, i) == IF i > Len(rs) THEN 2 ELSE Min2(rs[i].ex, MinEx(rs, i + 1))

RECURSIVE SumN(_, _)
SumN(rs, i) == IF i > Len(rs) THEN -1 ELSE AddN(rs[i].n, SumN(rs, i + 1))

IsIntStr(s) == \E d \in 1..Len(Digits) : Digits[d] = s
StrInt(s) == (CHOOSE d \in 1..Len(Digits) : Digits[d] = s) - 1

\* the error types of a wrong shape, and those of a violated bound or literal
TypeErrors ==
    {"int_type", "int_parsing", "int_from_float", "string_type", "bool_type", "bool_parsing",
     "list_type", "dict_type", "model_type", "missing"}
ConstraintErrors == {"greater_than_equal", "less_than_equal", "literal_error"}

\* int: an int is taken as is; in lax mode a bool, a str of digits and a
\* float without fractional part are converted; then ge / le are applied
Bounded(ty, n, ex) ==
    IF ty.hasge /\ n < ty.ge THEN Fail("greater_than_equal")
    ELSE IF ty.hasle /\ n > ty.le THEN Fail("less_than_equal")
    ELSE Ok(I(n), ex)

ValidateInt(ty, x) ==
    CASE x.t = "int" -> Bounded(ty, x.n, 2)
      [] x.t = "bool" -> Bounded(ty, IF x.b THEN 1 ELSE 0, 0)
      [] x.t = "str" -> IF IsIntStr(x.s) THEN Bounded(ty, StrInt(x.s), 0) ELSE Fail("int_parsing")
      [] x.t = "float" -> IF x.f % 10 = 0 THEN Bounded(ty, x.f \div 10, 0) ELSE Fail("int_from_float")
      [] OTHER -> Fail("int_type")

ValidateStr(x) == IF x.t = "str" THEN Ok(x, 2) ELSE Fail("string_type")

ValidateBool(x) ==
    CASE x.t = "bool" -> Ok(x, 2)
      [] x.t = "int" -> IF x.n \in {0, 1} THEN Ok(Bl(x.n = 1), 0) ELSE Fail("bool_parsing")
      [] OTHER -> Fail("bool_type")

ValidateLiteral(ty, x) == IF x.t = "str" /\ x.s \in ty.lit THEN Ok(x, 2) ELSE Fail("literal_error")

\* smart mode of pydantic 2.0-2.7: the first member that validates in strict
\* mode, else the first member that validates in lax mode
SmartLeftToRight(rs) ==
    LET strict == {i \in 1..Len(rs) : rs[i].ok /\ rs[i].sok}
        lax == {i \in 1..Len(rs) : rs[i].ok}
        first(s) == CHOOSE i \in s : \A j \in s : i <= j
    IN  IF strict # {} THEN rs[first(strict)]
        ELSE IF lax # {} THEN rs[first(lax)]
        ELSE [Fail("union") EXCEPT !.errs = UNION {At(IdxStr(i), rs[i].errs) : i \in 1..Len(rs)}]

\* smart mode of pydantic 2.8+: an exact match that set no fields returns at
\* once; otherwise the match with the most fields set wins, exactness breaks
\* a tie, and the leftmost member breaks a remaining tie
Better(cur, new) ==
    IF cur.n # -1 /\ new.n # -1 /\ cur.n # new.n THEN cur.n < new.n ELSE cur.ex < new.ex

RECURSIVE BestFrom(_, _, _)
BestFrom(rs, i, best) ==
    IF i > Len(rs) THEN best
    ELSE IF ~rs[i].ok THEN BestFrom(rs, i + 1, best)
    ELSE IF rs[i].ex = 2 /\ rs[i].n = -1 THEN i
    ELSE IF best = 0 \/ Better(rs[best], rs[i]) THEN BestFrom(rs, i + 1, i)
    ELSE BestFrom(rs, i + 1, best)

SmartFieldsSet(rs) ==
    LET b == BestFrom(rs, 1, 0)
    IN  IF b # 0 THEN rs[b]
        ELSE [Fail("union") EXCEPT !.errs = UNION {At(IdxStr(i), rs[i].errs) : i \in 1..Len(rs)}]

\* F applied to the value of e, with e evaluated once
Once(F(_), e) == CHOOSE y \in {F(x) : x \in {e}} : TRUE

ResolveUnion(rs) == IF smart = "ltr" THEN SmartLeftToRight(rs) ELSE SmartFieldsSet(rs)

RECURSIVE Validate(_, _)
\* a model: an instance of the class or of a subclass is kept as it is
\* (revalidate_instances = 'never'); a dict is validated field by field,
\* a missing field takes its default unvalidated, extra keys are ignored
FromFields(c, fs, given, rs) ==
    LET bad == {i \in 1..Len(fs) : ~rs[i].ok}
    IN  IF bad # {}
        THEN [Fail("model") EXCEPT !.errs = UNION {At(fs[i].name, rs[i].errs) : i \in bad}]
        ELSE [ok |-> TRUE,
              val |-> M(c, [i \in 1..Len(fs) |-> <<fs[i].name, rs[i].val>>]),
              errs |-> {},
              ex |-> Min2(1, MinEx(rs, 1)),
              n |-> AddN(Cardinality(given), SumN(rs, 1)),
              sok |-> FALSE]

ValidateModel(c, x) ==
    IF x.t = "model"
    THEN IF IsSub(ClsOf(x), c)
         THEN [Ok(x, IF ClsOf(x) = c THEN 2 ELSE 1) EXCEPT !.sok = TRUE]
         ELSE Fail("model_type")
    ELSE IF x.t # "dict" THEN Fail("model_type")
    ELSE Once(LAMBDA fs :
                Once(LAMBDA rs : FromFields(c, fs, {i \in 1..Len(fs) : Has(x.d, fs[i].name)}, rs),
                     [i \in 1..Len(fs) |->
                         IF Has(x.d, fs[i].name) THEN Validate(fs[i].ty, Get(x.d, fs[i].name))
                         ELSE IF fs[i].req THEN Fail("missing")
                         ELSE Ok(fs[i].dflt, 2)]),
              Fields(c))

FromItems(keys, rs, isList) ==
    LET bad == {i \in 1..Len(rs) : ~rs[i].ok}
    IN  IF bad # {}
        THEN [Fail("items") EXCEPT !.errs = UNION {At(keys[i], rs[i].errs) : i \in bad}]
        ELSE [ok |-> TRUE,
              val |-> IF isList THEN L([i \in 1..Len(rs) |-> rs[i].val])
                      ELSE D([i \in 1..Len(rs) |-> <<keys[i], rs[i].val>>]),
              errs |-> {}, ex |-> MinEx(rs, 1), n |-> SumN(rs, 1),
              sok |-> \A i \in 1..Len(rs) : rs[i].sok]

ValidateList(ty, x) ==
    IF x.t # "list" THEN Fail("list_type")
    ELSE Once(LAMBDA rs : FromItems([i \in 1..Len(rs) |-> IdxStr(i)], rs, TRUE),
              [i \in 1..Len(x.l) |-> Validate(ty.of, x.l[i])])

ValidateDict(ty, x) ==
    IF x.t # "dict" THEN Fail("dict_type")
    ELSE Once(LAMBDA rs : FromItems([i \in 1..Len(rs) |-> x.d[i][1]], rs, FALSE),
              [i \in 1..Len(x.d) |-> Validate(ty.of, x.d[i][2])])

ValidateUnion(ty, x) ==
    Once(LAMBDA rs : ResolveUnion(rs), [i \in 1..Len(ty.of) |-> Validate(ty.of[i], x)])

ValidateAs(ty, x) ==
    CASE ty.k = "int" -> ValidateInt(ty, x)
      [] ty.k = "str" -> ValidateStr(x)
      [] ty.k = "bool" -> ValidateBool(x)
      [] ty.k = "any" -> Ok(x, 2)
      [] ty.k = "literal" -> ValidateLiteral(ty, x)
      [] ty.k = "optional" -> IF x.t = "none" THEN Ok(None, 2) ELSE Validate(ty.of, x)
      [] ty.k = "list" -> ValidateList(ty, x)
      [] ty.k = "dict" -> ValidateDict(ty, x)
      [] ty.k = "union" -> ValidateUnion(ty, x)
      [] ty.k = "model" -> ValidateModel(ty.cls, x)

Validate(ty, x) == Once(LAMBDA a : ValidateAs(a[1], a[2]), <<ty, x>>)

(***************************************************************************)
(* Serialization: model_dump() walks the declared field types; a value     *)
(* that does not fit its declared type is emitted by its runtime type.     *)
(***************************************************************************)
RECURSIVE Fits(_, _, _)
\* the serializer of type ty takes value x (strict: by exact type; lax: isinstance)
Fits(ty, x, strict) ==
    CASE ty.k = "int" -> x.t = "int" \/ (~strict /\ x.t = "bool")
      [] ty.k = "str" -> x.t = "str"
      [] ty.k = "bool" -> x.t = "bool"
      [] ty.k = "any" -> TRUE
      [] ty.k = "literal" -> x.t = "str" /\ x.s \in ty.lit
      [] ty.k = "optional" -> x.t = "none" \/ Fits(ty.of, x, strict)
      [] ty.k = "list" -> x.t = "list"
      [] ty.k = "dict" -> x.t = "dict"
      [] ty.k = "union" -> \E i \in 1..Len(ty.of) : Fits(ty.of[i], x, strict)
      [] ty.k = "model" ->
            x.t = "model" /\ (IF strict THEN ClsOf(x) = ty.cls ELSE IsSub(ClsOf(x), ty.cls))

RECURSIVE Dump(_, _)
RECURSIVE DumpAny(_)

\* a model field is dumped with the fields of its declared class: the extra
\* fields of a subclass instance are left out
DumpModel(c, x) ==
    Once(LAMBDA fs :
            D([i \in 1..Len(fs) |-> <<fs[i].name, Dump(fs[i].ty, Get(FieldsOf(x), fs[i].name))>>]),
         Fields(c))

\* a union is dumped by the first member that takes the value by exact type,
\* else by the first that takes it at all
DumpUnion(tys, x) ==
    LET strict == {i \in 1..Len(tys) : Fits(tys[i], x, TRUE)}
        lax == {i \in 1..Len(tys) : Fits(tys[i], x, FALSE)}
        first(s) == CHOOSE i \in s : \A j \in s : i <= j
    IN  IF strict # {} THEN Dump(tys[first(strict)], x)
        ELSE IF lax # {} THEN Dump(tys[first(lax)], x)
        ELSE DumpAny(x)

DumpAs(ty, x) ==
    CASE ty.k = "model" /\ Fits(ty, x, FALSE) -> DumpModel(ty.cls, x)
      [] ty.k = "optional" /\ x.t # "none" -> Dump(ty.of, x)
      [] ty.k = "list" /\ x.t = "list" -> L([i \in 1..Len(x.l) |-> Dump(ty.of, x.l[i])])
      [] ty.k = "dict" /\ x.t = "dict" ->
            D([i \in 1..Len(x.d) |-> <<x.d[i][1], Dump(ty.of, x.d[i][2])>>])
      [] ty.k = "union" -> DumpUnion(ty.of, x)
      [] OTHER -> DumpAny(x)

Dump(ty, x) == Once(LAMBDA a : DumpAs(a[1], a[2]), <<ty, x>>)

DumpByValue(x) ==
    CASE x.t = "model" -> DumpModel(ClsOf(x), x)
      [] x.t = "list" -> L([i \in 1..Len(x.l) |-> DumpAny(x.l[i])])
      [] x.t = "dict" -> D([i \in 1..Len(x.d) |-> <<x.d[i][1], DumpAny(x.d[i][2])>>])
      [] OTHER -> x

DumpAny(x) == Once(LAMBDA y : DumpByValue(y), x)

\* x.model_dump(): every field, defaults and None included
model_dump(x) == Dump(TModel(ClsOf(x)), x)

(***************************************************************************)
(* JSON text, as its tokens. A number is <<whole, frac>>, frac = -1 when   *)
(* the lexeme has no fraction part ("1" against "1.0").                    *)
(***************************************************************************)
JNull == [j |-> "null"]
JBool(b) == [j |-> IF b THEN "true" ELSE "false"]
JNum(whole, frac) == [j |-> "number", num |-> <<whole, frac>>]
JStr(s) == [j |-> "string", str |-> s]
JArr(seq) == [j |-> "array", arr |-> seq]
JObj(pairs) == [j |-> "object", obj |-> pairs]
NoJson == [j |-> "nothing"]

RECURSIVE json_dumps(_)
Encode(x) ==
    CASE x.t = "none" -> JNull
      [] x.t = "bool" -> JBool(x.b)
      [] x.t = "int" -> JNum(x.n, -1)
      [] x.t = "float" -> JNum(x.f \div 10, x.f % 10)
      [] x.t = "str" -> JStr(x.s)
      [] x.t = "list" -> JArr([i \in 1..Len(x.l) |-> json_dumps(x.l[i])])
      [] x.t = "dict" -> JObj([i \in 1..Len(x.d) |-> <<x.d[i][1], json_dumps(x.d[i][2])>>])

json_dumps(x) == Once(LAMBDA y : Encode(y), x)

RECURSIVE json_loads(_)
Decode(j) ==
    CASE j.j = "null" -> None
      [] j.j = "true" -> Bl(TRUE)
      [] j.j = "false" -> Bl(FALSE)
      [] j.j = "number" -> IF j.num[2] = -1 THEN I(j.num[1]) ELSE Fl(j.num[1] * 10 + j.num[2])
      [] j.j = "string" -> S(j.str)
      [] j.j = "array" -> L([i \in 1..Len(j.arr) |-> json_loads(j.arr[i])])
      [] j.j = "object" -> D([i \in 1..Len(j.obj) |-> <<j.obj[i][1], json_loads(j.obj[i][2])>>])

json_loads(j) == Once(LAMBDA y : Decode(y), j)

(***************************************************************************)
(* model_json_schema(): the properties in declaration order; required is   *)
(* the fields declared without a default.                                  *)
(***************************************************************************)
RECURSIVE Select(_, _)
Select(fs, i) ==
    IF i > Len(fs) THEN <<>>
    ELSE (IF fs[i].req THEN <<fs[i].name>> ELSE <<>>) \o Select(fs, i + 1)

model_json_schema(c) ==
    [title |-> c,
     properties |-> [i \in 1..Len(Fields(c)) |-> Fields(c)[i].name],
     required |-> Select(Fields(c), 1)]

\* the keys of the schema dict of the main block, in the order it is built
SchemaNames ==
    <<"Position", "Range", "Location", "Diagnostic", "TextEdit",
      "RequestMessage", "ResponseMessage", "NotificationMessage">>

(***************************************************************************)
(* Inputs of the callers.                                                  *)
(***************************************************************************)
Unset == [t |-> "unset"]
Arg(name, x) == IF x = Unset THEN <<>> ELSE << <<name, x>> >>

Ints == {I(n) : n \in -2..MaxInt}
\* what a caller may pass where an integer is declared
IntArgs == Ints \cup {S("3"), S("abc"), Bl(TRUE), Fl(15), Fl(20), None}

PosKw(l, c) == D(<<<<"line", I(l)>>, <<"character", I(c)>>>>)
RangeKw == D(<<<<"start", PosKw(0, 1)>>, <<"end", PosKw(0, 2)>>>>)
LocationKw == D(<<<<"uri", S("file:///a")>>, <<"range", RangeKw>>>>)
RelatedKw == D(<<<<"location", LocationKw>>, <<"message", S("see")>>>>)

\* instances built by their constructors
New(c, kwargs) == Validate(TModel(c), kwargs)
TextEditObj == New("TextEdit", D(<<<<"range", RangeKw>>, <<"newText", S("x")>>>>)).val
AnnotatedTextEditObj ==
    New("AnnotatedTextEdit",
        D(<<<<"range", RangeKw>>, <<"newText", S("x")>>, <<"annotationId", S("a1")>>>>)).val
CreateFileObj == New("CreateFile", D(<<<<"uri", S("file:///a")>>>>)).val
RenameFileObj ==
    New("RenameFile", D(<<<<"oldUri", S("file:///a")>>, <<"newUri", S("file:///b")>>>>)).val
DeleteFileObj == New("DeleteFile", D(<<<<"uri", S("file:///a")>>>>)).val
TextDocumentEditObj ==
    New("TextDocumentEdit",
        D(<<<<"textDocument", D(<<<<"uri", S("file:///a")>>>>)>>,
            <<"edits", L(<<TextEditObj>>)>>>>)).val

SeqsUpTo(set, n) == UNION {[1..k -> set] : k \in 0..n}

\* JSON received from the wire: edits entries and documentChanges entries
JRange == json_dumps(RangeKw)
JTextDoc == JObj(<<<<"uri", JStr("file:///a")>>>>)
EditEntries ==
    {JObj(<<<<"range", JRange>>, <<"newText", JStr("x")>>>>),
     JObj(<<<<"range", JRange>>, <<"newText", JStr("x")>>, <<"annotationId", JStr("a1")>>>>)}
KindArgs == {Unset, JStr("create"), JStr("rename"), JStr("delete"), JStr("move")}
ChangeEntries ==
    {JObj(Arg("kind", k) \o body) :
        k \in KindArgs,
        body \in {<<<<"uri", JStr("file:///a")>>>>,
                  <<<<"oldUri", JStr("file:///a")>>, <<"newUri", JStr("file:///b")>>>>,
                  <<<<"textDocument", JTextDoc>>, <<"edits", JArr(<<>>)>>>>}}

(***************************************************************************)
(* Operations on instances.                                                *)
(***************************************************************************)
exportVars == <<pc, schema, buf, file, prev>>

\* C(**kwargs): the instance exists only if validation succeeds
Construct(c, kwargs) ==
    /\ pc = "run"
    /\ call[1] = "start"
    /\ \E r \in {New(c, kwargs)} :
          /\ inst' = IF r.ok THEN r.val ELSE NoInst
          /\ err' = r.errs
    /\ kw' = kwargs
    /\ out' = NoJson
    /\ back' = NoInst
    /\ call' = <<"new", c>>
    /\ assigned' = FALSE
    /\ UNCHANGED <<smart, exportVars>>

NewPosition ==
    \E l \in IntArgs \cup {Unset}, c \in {I(-1), I(0), I(MaxInt), S("3")} :
        Construct("Position", D(Arg("line", l) \o Arg("character", c)))

NewRange ==
    \E s \in {PosKw(0, 1), New("Position", PosKw(2, 0)).val, I(0)}, e \in {PosKw(0, 0), Unset} :
        Construct("Range", D(Arg("start", s) \o Arg("end", e)))

NewDiagnostic ==
    \E sev \in IntArgs \cup {Unset}, code \in {Unset, I(1), S("1")},
       msg \in {S("m"), I(7)}, rel \in {Unset, L(<<RelatedKw>>)} :
        Construct("Diagnostic",
                  D(<<<<"range", RangeKw>>>> \o Arg("severity", sev) \o Arg("code", code)
                    \o Arg("message", msg) \o Arg("relatedInformation", rel)))

NewRequestMessage ==
    \E id \in {Unset, I(1), S("1"), Bl(TRUE), Fl(20)},
       ver \in {Unset, S("2.0"), S("1.0")},
       params \in {Unset, D(<<<<"position", PosKw(1, 0)>>>>), L(<<I(1)>>)} :
        Construct("RequestMessage",
                  D(Arg("jsonrpc", ver) \o Arg("id", id) \o <<<<"method", S("m")>>>>
                    \o Arg("params", params)))

NewResponseMessage ==
    \E id \in {I(1), S("1")}, result \in {Unset, D(<<<<"items", L(<<>>)>>>>)},
       error \in {Unset, D(<<<<"code", I(-1)>>, <<"message", S("bad")>>>>)} :
        Construct("ResponseMessage",
                  D(<<<<"id", id>>>> \o Arg("result", result) \o Arg("error", error)))

NewNotificationMessage ==
    \E id \in {Unset, I(1)}, method \in {S("m"), Unset}, params \in {Unset, L(<<I(1)>>)} :
        Construct("NotificationMessage",
                  D(Arg("id", id) \o Arg("method", method) \o Arg("params", params)))

NewTextDocumentEdit ==
    \E edits \in SeqsUpTo({TextEditObj, AnnotatedTextEditObj}, MaxEdits), ver \in {Unset, I(1)} :
        Construct("TextDocumentEdit",
                  D(<<<<"textDocument", D(<<<<"uri", S("file:///a")>>>> \o Arg("version", ver))>>,
                      <<"edits", L(edits)>>>>))

NewWorkspaceEdit ==
    \E dc \in {Unset} \cup {L(q) : q \in SeqsUpTo({TextDocumentEditObj, CreateFileObj,
                                                    RenameFileObj, DeleteFileObj}, MaxEdits)},
       ch \in {Unset, D(<<<<"file:///a", L(<<TextEditObj>>)>>>>),
               D(<<<<"file:///a", L(<<AnnotatedTextEditObj>>)>>>>)} :
        /\ dc = Unset \/ ch = Unset
        /\ Construct("WorkspaceEdit", D(Arg("changes", ch) \o Arg("documentChanges", dc)))

\* x.name = value: BaseModel.__setattr__ stores the value of a declared field;
\* no model sets validate_assignment or frozen
AttrValues == {I(-1), S("1.0")}
SetAttr ==
    /\ pc = "run"
    /\ inst # NoInst
    /\ call[1] = "new"
    /\ \E name \in FieldNames(ClsOf(inst)), x \in AttrValues :
          inst' = M(ClsOf(inst), Put(FieldsOf(inst), name, x))
    /\ call' = <<"setattr", ClsOf(inst)>>
    /\ assigned' = TRUE
    /\ UNCHANGED <<smart, kw, err, out, back, exportVars>>

\* json.dumps(x.model_dump())
Serialize ==
    /\ pc = "run"
    /\ inst # NoInst
    /\ out' = json_dumps(model_dump(inst))
    /\ back' = NoInst
    /\ call' = <<"dump", ClsOf(inst)>>
    /\ UNCHANGED <<smart, inst, kw, err, assigned, exportVars>>

\* a JSON document arrives from the peer, to be read as class c
Receive ==
    /\ pc = "run"
    /\ call[1] = "start"
    /\ \E c \in {"TextDocumentEdit", "WorkspaceEdit"} :
          /\ call' = <<"recv", c>>
          /\ \/ /\ c = "TextDocumentEdit"
                /\ \E es \in SeqsUpTo(EditEntries, MaxEdits) :
                      out' = JObj(<<<<"textDocument", JTextDoc>>, <<"edits", JArr(es)>>>>)
             \/ /\ c = "WorkspaceEdit"
                /\ \E e \in ChangeEntries : out' = JObj(<<<<"documentChanges", JArr(<<e>>)>>>>)
    /\ inst' = NoInst
    /\ kw' = D(<<>>)
    /\ err' = {}
    /\ back' = NoInst
    /\ assigned' = FALSE
    /\ UNCHANGED <<smart, exportVars>>

\* the caller lets go of what it holds (the locals of export_examples end
\* with the function); the next construction starts from nothing
Discard ==
    /\ pc = "run"
    /\ call[1] # "start"
    /\ inst' = NoInst
    /\ kw' = D(<<>>)
    /\ err' = {}
    /\ out' = NoJson
    /\ back' = NoInst
    /\ call' = <<"start", "">>
    /\ assigned' = FALSE
    /\ UNCHANGED <<smart, exportVars>>

\* C.model_validate(json.loads(text)) with the class the text was made from or sent as
Deserialize ==
    /\ pc = "run"
    /\ out # NoJson
    /\ call[1] \in {"dump", "recv"}
    /\ \E r \in {New(call[2], json_loads(out))} :
          /\ back' = IF r.ok THEN r.val ELSE NoInst
          /\ err' = r.errs
    /\ call' = <<"load", call[2]>>
    /\ UNCHANGED <<smart, inst, kw, out, assigned, exportVars>>

(***************************************************************************)
(* export_examples(): the examples are built and printed.                  *)
(***************************************************************************)
Example(c, kwargs) ==
    /\ pc = "run"
    /\ call[1] = "start"
    /\ \E r \in {New(c, kwargs)} :
          /\ r.ok
          /\ inst' = r.val
          /\ err' = r.errs
          /\ out' = json_dumps(model_dump(r.val))
    /\ kw' = kwargs
    /\ back' = NoInst
    /\ call' = <<"dump", c>>
    /\ assigned' = FALSE
    /\ UNCHANGED <<smart, exportVars>>

ExampleRangeKw == D(<<<<"start", PosKw(10, 5)>>, <<"end", PosKw(10, 15)>>>>)
ExampleDiagnosticKw ==
    D(<<<<"range", New("Range", ExampleRangeKw).val>>, <<"severity", I(1)>>,
        <<"code", S("E001")>>, <<"source", S("ruby-lsp")>>,
        <<"message", S("Undefined method 'foo' for nil:NilClass")>>>>)
ExampleRequestKw ==
    D(<<<<"id", I(1)>>, <<"method", S("textDocument/completion")>>,
        <<"params", D(<<<<"textDocument", D(<<<<"uri", S("file:///path/to/mal_minimal.rb")>>>>)>>,
                        <<"position", PosKw(10, 5)>>>>)>>>>)
ExampleNotificationKw ==
    D(<<<<"method", S("textDocument/publishDiagnostics")>>,
        <<"params", D(<<<<"uri", S("file:///path/to/mal_minimal.rb")>>,
                        <<"diagnostics",
                          L(<<model_dump(New("Diagnostic", ExampleDiagnosticKw).val)>>)>>>>)>>>>)

ExamplePosition == Example("Position", PosKw(10, 5))
ExampleDiagnostic == Example("Diagnostic", ExampleDiagnosticKw)
ExampleRequest == Example("RequestMessage", ExampleRequestKw)
ExampleNotification == Example("NotificationMessage", ExampleNotificationKw)

(***************************************************************************)
(* The schema export of the main block:                                    *)
(*   with open("lsp-structures-schema.json", "w") as f:                    *)
(*       schema = {...}; json.dump(schema, f, indent=2)                    *)
(***************************************************************************)
NoFile == [exists |-> FALSE, data |-> <<>>]
FileOf(entries) == [exists |-> TRUE, data |-> entries]
Entry(c) == <<c, model_json_schema(c)>>
\* what an earlier run left behind, and the document this run is to write
OldDoc == <<<<"Position", [title |-> "Position", properties |-> <<"line">>, required |-> <<"line">>]>>>>
NewDoc == [i \in 1..Len(SchemaNames) |-> Entry(SchemaNames[i])]

instVars == <<inst, kw, err, out, back, call, assigned>>

\* open(..., "w") creates or truncates the file, before anything is generated
Open ==
    /\ pc = "run"
    /\ pc' = "gen"
    /\ file' = FileOf(<<>>)
    /\ schema' = <<>>
    /\ buf' = <<>>
    /\ inst' = NoInst /\ kw' = D(<<>>) /\ err' = {} /\ out' = NoJson /\ back' = NoInst
    /\ call' = <<"open", "">>
    /\ assigned' = FALSE
    /\ UNCHANGED <<smart, prev>>

\* open() raises (no permission, no such directory): nothing is touched
OpenFail ==
    /\ pc = "run"
    /\ pc' = "failed"
    /\ inst' = NoInst /\ kw' = D(<<>>) /\ err' = {} /\ out' = NoJson /\ back' = NoInst
    /\ call' = <<"open", "">>
    /\ assigned' = FALSE
    /\ UNCHANGED <<smart, schema, buf, file, prev>>

\* the dict display evaluates one model_json_schema() after the other
GenSchema ==
    /\ pc = "gen"
    /\ schema' = Append(schema, Entry(SchemaNames[Len(schema) + 1]))
    /\ pc' = IF Len(schema') = Len(SchemaNames) THEN "dump" ELSE "gen"
    /\ UNCHANGED <<smart, instVars, buf, file, prev>>

\* json.dump writes the document to f piece by piece
Write ==
    /\ pc = "dump"
    /\ Len(file.data) + Len(buf) < Len(schema)
    /\ buf' = Append(buf, schema[Len(file.data) + Len(buf) + 1])
    /\ UNCHANGED <<smart, instVars, pc, schema, file, prev>>

\* the buffer of f fills up and is written out
Flush ==
    /\ pc = "dump"
    /\ buf # <<>>
    /\ file' = FileOf(file.data \o buf)
    /\ buf' = <<>>
    /\ UNCHANGED <<smart, instVars, pc, schema, prev>>

\* a write raises OSError (disk full, I/O error): the with block closes f,
\* which may or may not get the buffered text out, and the error propagates
WriteFail ==
    /\ pc = "dump"
    /\ pc' = "failed"
    /\ \/ file' = FileOf(file.data \o buf)
       \/ file' = file
    /\ buf' = <<>>
    /\ UNCHANGED <<smart, instVars, schema, prev>>

\* the with block ends: f is flushed and closed
Close ==
    /\ pc = "dump"
    /\ Len(file.data) + Len(buf) = Len(schema)
    /\ file' = FileOf(file.data \o buf)
    /\ buf' = <<>>
    /\ pc' = "done"
    /\ UNCHANGED <<smart, instVars, schema, prev>>

Init ==
    /\ smart \in {"ltr", "fields"}
    /\ inst = NoInst
    /\ kw = D(<<>>)
    /\ err = {}
    /\ out = NoJson
    /\ back = NoInst
    /\ call = <<"start", "">>
    /\ assigned = FALSE
    /\ pc = "run"
    /\ schema = <<>>
    /\ buf = <<>>
    /\ prev \in {NoFile, FileOf(OldDoc)}
    /\ file = prev

Next ==
    \/ NewPosition
    \/ NewRange
    \/ NewDiagnostic
    \/ NewRequestMessage
    \/ NewResponseMessage
    \/ NewNotificationMessage
    \/ NewTextDocumentEdit
    \/ NewWorkspaceEdit
    \/ SetAttr
    \/ Serialize
    \/ Receive
    \/ Deserialize
    \/ Discard
    \/ ExamplePosition
    \/ ExampleDiagnostic
    \/ ExampleRequest
    \/ ExampleNotification
    \/ Open
    \/ OpenFail
    \/ GenSchema
    \/ Write
    \/ Flush
    \/ WriteFail
    \/ Close

Spec == Init /\ [][Next]_vars

(***************************************************************************)
(* Properties.                                                             *)
(***************************************************************************)
Supplied(name) == IF Has(kw.d, name) THEN Get(kw.d, name) ELSE Unset
IsOptional(c, name) == FieldOf(c, name).ty.k = "optional"
\* out is the serialization of inst as it was constructed
Dumped(c) == call = <<"dump", c>> /\ inst # NoInst /\ ~assigned
\* back is what deserializing out as class c gave
Loaded(c) == call = <<"load", c>>

\* C1: the serialized form of an instance has a key for an optional field only
\* if the field was supplied at construction, and never a null for an absent one.
C1_AbsentOptionalOmitted ==
    (call[1] = "dump" /\ inst # NoInst /\ ~assigned) =>
        \A i \in 1..Len(out.obj) :
            IsOptional(call[2], out.obj[i][1]) =>
                Has(kw.d, out.obj[i][1]) /\ out.obj[i][2] # JNull

\* C2: every existing Position has line >= 0 and character >= 0, every existing
\* Diagnostic a severity that is unset or in 1..4, every existing message
\* jsonrpc "2.0", whatever was done to the instance after its construction.
NonNegative(x) == x.t = "int" /\ x.n >= 0
C2_ConstraintsAlwaysHold ==
    inst # NoInst =>
        /\ ClsOf(inst) = "Position" =>
              NonNegative(Get(FieldsOf(inst), "line")) /\ NonNegative(Get(FieldsOf(inst), "character"))
        /\ ClsOf(inst) = "Diagnostic" =>
              LET sev == Get(FieldsOf(inst), "severity")
              IN  sev = None \/ (sev.t = "int" /\ sev.n \in 1..4)
        /\ IsSub(ClsOf(inst), "Message") => Get(FieldsOf(inst), "jsonrpc") = S("2.0")

\* C3: constructing a Diagnostic whose other fields are valid fails with a
\* validation error on severity and leaves no instance when severity is an
\* integer outside 1..4, and succeeds when it is in 1..4 or not supplied.
C3_SeverityGate ==
    (call = <<"new", "Diagnostic">> /\ Supplied("message").t = "str") =>
        LET sev == Supplied("severity")
        IN  /\ (sev.t = "int" /\ sev.n \notin 1..4) =>
                  /\ inst = NoInst
                  /\ err # {}
                  /\ \A e \in err : e.loc = <<"severity">> /\ e.ty \in ConstraintErrors
            /\ (sev = Unset \/ (sev.t = "int" /\ sev.n \in 1..4)) =>
                  /\ inst # NoInst
                  /\ err = {}
                  /\ ClsOf(inst) = "Diagnostic"
                  /\ Get(FieldsOf(inst), "severity") = (IF sev = Unset THEN None ELSE sev)

C3_Witness ==
    /\ call = <<"new", "Diagnostic">>
    /\ Supplied("message").t = "str"
    /\ Supplied("severity") = I(5)
    /\ inst = NoInst

\* C4: serializing a valid instance and deserializing the text with the same
\* class gives an instance equal to the original.
C4_RoundTrip ==
    (call[1] = "load" /\ inst # NoInst /\ ~assigned) => back = inst

\* C5: in a deserialized TextDocumentEdit, an entry of edits that carries an
\* annotationId is an AnnotatedTextEdit with that annotationId, and an entry
\* without one is a TextEdit.
C5_AnnotationIdSelects ==
    (Loaded("TextDocumentEdit") /\ back # NoInst) =>
        LET given == Get(json_loads(out).d, "edits").l
            got == Get(FieldsOf(back), "edits").l
        IN  /\ Len(got) = Len(given)
            /\ \A i \in 1..Len(given) :
                  IF Has(given[i].d, "annotationId")
                  THEN /\ ClsOf(got[i]) = "AnnotatedTextEdit"
                       /\ Get(FieldsOf(got[i]), "annotationId") = Get(given[i].d, "annotationId")
                  ELSE ClsOf(got[i]) = "TextEdit"

\* C6: in a deserialized WorkspaceEdit, a documentChanges entry is the variant
\* its kind names (create, rename, delete), a TextDocumentEdit when it has no
\* kind, and an entry with any other kind is rejected.
KindClass(k) ==
    CASE k = Unset -> "TextDocumentEdit"
      [] k = S("create") -> "CreateFile"
      [] k = S("rename") -> "RenameFile"
      [] k = S("delete") -> "DeleteFile"
      [] OTHER -> "rejected"
EntryKind(e) == IF Has(e.d, "kind") THEN Get(e.d, "kind") ELSE Unset
C6_KindSelects ==
    (Loaded("WorkspaceEdit") /\ Has(json_loads(out).d, "documentChanges")
        /\ Get(json_loads(out).d, "documentChanges") # None) =>
        LET given == Get(json_loads(out).d, "documentChanges").l
        IN  /\ (\E i \in 1..Len(given) : KindClass(EntryKind(given[i])) = "rejected") => back = NoInst
            /\ back # NoInst =>
                  \A i \in 1..Len(given) :
                      ClsOf(Get(FieldsOf(back), "documentChanges").l[i]) = KindClass(EntryKind(given[i]))

\* C7: at every moment of the export, the schema file holds its complete
\* previous content (or is absent as before) or the complete new document.
C7_AllOrNothing == file = prev \/ file = FileOf(NewDoc)

\* C8: the exported document has one entry for each of the eight names and no
\* other, and the required list of every entry is the fields of the class
\* whose declared type is not optional.
RECURSIVE NonOptional(_, _)
NonOptional(fs, i) ==
    IF i > Len(fs) THEN <<>>
    ELSE (IF fs[i].ty.k # "optional" THEN <<fs[i].name>> ELSE <<>>) \o NonOptional(fs, i + 1)
C8_RequiredIsNonOptional ==
    /\ \A i \in 1..Len(schema) : schema[i][2].required = NonOptional(Fields(schema[i][1]), 1)
    /\ pc = "done" => [i \in 1..Len(file.data) |-> file.data[i][1]] = SchemaNames

\* C9: a construction given a value of the wrong type for an integer or string
\* field is refused with a type error at that field; the value is never
\* converted into a valid instance.
ScalarField(f) ==
    \/ f.ty.k \in {"int", "str"}
    \/ f.ty.k = "optional" /\ f.ty.of.k \in {"int", "str"}
WrongTyped(c) ==
    {i \in 1..Len(Fields(c)) :
        /\ ScalarField(Fields(c)[i])
        /\ Has(kw.d, Fields(c)[i].name)
        /\ ~Fits(Fields(c)[i].ty, Get(kw.d, Fields(c)[i].name), TRUE)}
C9_WrongTypeRefused ==
    call[1] = "new" =>
        \A i \in WrongTyped(call[2]) :
            /\ inst = NoInst
            /\ \E e \in err : e.loc = <<Fields(call[2])[i].name>> /\ e.ty \in TypeErrors

\* C10: a RequestMessage constructed with an integer or string id and without
\* jsonrpc serializes with jsonrpc "2.0" as its first member and with the id
\* unchanged in value and type; a serialized NotificationMessage has no id.
C10_Envelope ==
    /\ (Dumped("RequestMessage") /\ ~Has(kw.d, "jsonrpc") /\ Supplied("id").t \in {"int", "str"}) =>
          /\ out.obj[1] = <<"jsonrpc", JStr("2.0")>>
          /\ Get(out.obj, "id") =
                (IF Supplied("id").t = "int" THEN JNum(Supplied("id").n, -1)
                 ELSE JStr(Supplied("id").s))
    /\ call = <<"dump", "NotificationMessage">> => ~Has(out.obj, "id")

C10_Witness ==
    /\ Dumped("RequestMessage")
    /\ ~Has(kw.d, "jsonrpc")
    /\ Supplied("id") = S("1")
    /\ Get(out.obj, "id") = JStr("1")

====
